---- MODULE Spec2Model ----
(***************************************************************************)
(* Model of the Identity value object of synthetism/identity-core          *)
(* (src/src/identity.ts).  The file holds two revisions of the class: the  *)
(* earlier one (lines 26-127) and the later one (lines 169-309).  Both are *)
(* modelled; an instance records the revision whose create built it.       *)
(*                                                                         *)
(* The caller has one instance in scope at a time.                         *)
(* JavaScript values are tagged records.  Date objects and metadata        *)
(* objects live in a heap (dates, metas) and are held by reference, as in  *)
(* the program, so that sharing between the caller and an instance is      *)
(* visible.                                                                *)
(***************************************************************************)
EXTENDS Integers, Sequences, FiniteSets

VARIABLES
  instances,   \* the Identity instance the caller has in scope: <<>> or <<instance>>
  dates,       \* heap of Date objects: id -> time value (InvalidTime = NaN)
  metas,       \* heap of metadata objects: id -> set of keys present
  now,         \* the system clock read by `new Date()`
  call,        \* the caller's last call: operation, receiver, argument, result
  held,        \* heap references the caller holds from its last call
  deepFreeze   \* whether the external ValueObject base freezes nested objects

vars == <<instances, dates, metas, now, call, held, deepFreeze>>

----------------------------------------------------------------------------
(* Bounds of the model *)

MaxNow == 1
MaxSuffix == 1

----------------------------------------------------------------------------
(* Program constants *)

MinAliasLength == 2
MaxAliasLength == 32
InvalidTime == -1

EmptyMsg == "Vault Alias  empty"
CharsMsg == "Only alphanumeric characters, numbers, dashes, and underscores are allowed in vault ID"
LengthMsg == "Vault Alias must be between 2 and 32 characters"
DefaultVersion == "1.0.0"

----------------------------------------------------------------------------
(* JavaScript values *)

Undefined == [t |-> "undefined"]
Str(s) == [t |-> "string", v |-> s]
DateRef(r) == [t |-> "Date", ref |-> r]
ObjRef(r) == [t |-> "object", ref |-> r]

\* ToBoolean: undefined and the empty string are falsy, every object
\* (an Invalid Date included) is truthy.
Truthy(v) == /\ v.t # "undefined"
             /\ (v.t = "string" => Len(v.v) > 0)

\* a || b
Or(a, b) == IF Truthy(a) THEN a ELSE b

Lower == {"a","b","c","d","e","f","g","h","i","j","k","l","m",
          "n","o","p","q","r","s","t","u","v","w","x","y","z"}
Upper == {"A","B","C","D","E","F","G","H","I","J","K","L","M",
          "N","O","P","Q","R","S","T","U","V","W","X","Y","Z"}
Digit == {"0","1","2","3","4","5","6","7","8","9"}

\* /^[a-zA-Z0-9_-]+$/.test(s) on a string s (a sequence of characters)
AliasChars == Lower \cup Upper \cup Digit \cup {"_", "-"}
regexTest(s) == /\ Len(s) >= 1
                /\ \A i \in 1..Len(s) : s[i] \in AliasChars

----------------------------------------------------------------------------
(* Heap helpers *)

\* Object identities; more than are ever live at once.
DateIds == 1..4
MetaIds == 1..4
Times == 0..MaxNow
TimeValues == Times \cup {InvalidTime}

Restrict(f, S) == [x \in S \cap DOMAIN f |-> f[x]]
Extend(f, x, v) == [y \in DOMAIN f \cup {x} |-> IF y = x THEN v ELSE f[y]]
NewId(f, Ids) == CHOOSE x \in Ids \ DOMAIN f : \A y \in Ids \ DOMAIN f : x <= y

----------------------------------------------------------------------------
(* Identity: construction *)

PropKeys == <<"did", "alias", "kid", "publicKeyHex", "privateKeyHex",
              "provider", "credential", "metadata", "createdAt", "version">>

\* Result.fail(message) / Result.success(value) of the external Result type
ResultFail(msg, ds, ms) ==
  [ok |-> FALSE, error |-> msg, value |-> Undefined, dates |-> ds, metas |-> ms]
ResultSuccess(inst, ds, ms) ==
  [ok |-> TRUE, error |-> "", value |-> inst, dates |-> ds, metas |-> ms]

\* validate with the upper length bound off by one
validate_lengthOffByOne(alias) ==
  IF ~Truthy(alias) THEN EmptyMsg
  ELSE IF ~regexTest(alias.v) THEN CharsMsg
  ELSE IF Len(alias.v) < MinAliasLength \/ Len(alias.v) >= MaxAliasLength THEN LengthMsg
  ELSE ""

\* validate with the length check ahead of the character check
validate_lengthFirst(alias) ==
  IF ~Truthy(alias) THEN EmptyMsg
  ELSE IF Len(alias.v) < MinAliasLength \/ Len(alias.v) > MaxAliasLength THEN LengthMsg
  ELSE IF ~regexTest(alias.v) THEN CharsMsg
  ELSE ""

\* The three alias checks of create, in the order of the code; "" when all pass.
validate(alias) ==
  IF ~Truthy(alias) THEN EmptyMsg
  ELSE IF ~regexTest(alias.v) THEN CharsMsg
  ELSE IF Len(alias.v) < MinAliasLength \/ Len(alias.v) > MaxAliasLength THEN LengthMsg
  ELSE ""

\* newProps that stores the version as given, without the default
newProps_versionAsGiven(props, createdAt, emptyObj) ==
  [did |-> props.did,
   alias |-> props.alias,
   kid |-> props.kid,
   publicKeyHex |-> props.publicKeyHex,
   privateKeyHex |-> props.privateKeyHex,
   provider |-> props.provider,
   credential |-> props.credential,
   metadata |-> Or(props.metadata, emptyObj),
   createdAt |-> createdAt,
   version |-> props.version]

\* The record handed to the constructor by the later revision's create.
\* createdAt is the Date built on line 218, emptyObj the object of the `{}` literal.
newProps(props, createdAt, emptyObj) ==
  [did |-> props.did,
   alias |-> props.alias,
   kid |-> props.kid,
   publicKeyHex |-> props.publicKeyHex,
   privateKeyHex |-> props.privateKeyHex,
   provider |-> props.provider,
   credential |-> props.credential,
   metadata |-> Or(props.metadata, emptyObj),
   createdAt |-> createdAt,
   version |-> Or(props.version, Str(DefaultVersion))]

\* The record handed to the constructor by the earlier revision's create.
newPropsRev1(props, createdAt, emptyObj) ==
  [did |-> props.did,
   alias |-> props.alias,
   kid |-> props.kid,
   publicKeyHex |-> props.publicKeyHex,
   privateKeyHex |-> props.publicKeyHex,
   provider |-> props.provider,
   credential |-> props.credential,
   metadata |-> Or(props.metadata, emptyObj),
   createdAt |-> createdAt,
   version |-> Or(props.version, Str(DefaultVersion))]

\* Later revision's constructor: super(props), then unitDNA.
Identity(props) ==
  [rev |-> 2,
   props |-> props,
   unitDNA |-> [name |-> "Identity Unit",
                version |-> Or(props.version, Str(DefaultVersion)),
                capabilities |-> <<"create", "update", "delete">>,
                children |-> <<>>]]

\* Earlier revision's constructor: super(props) only.
IdentityRev1(props) ==
  [rev |-> 1, props |-> props, unitDNA |-> Undefined]

\* create that stamps every instance with the current time
create_ignoresCreatedAt(props, ds, ms, t) ==
  IF validate(props.alias) # "" THEN ResultFail(validate(props.alias), ds, ms)
  ELSE LET d == NewId(ds, DateIds)
           m == NewId(ms, MetaIds)
           ms1 == IF Truthy(props.metadata) THEN ms ELSE Extend(ms, m, {})
       IN ResultSuccess(Identity(newProps(props, DateRef(d), ObjRef(m))),
                        Extend(ds, d, t), ms1)

\* Identity.create of the later revision, on heap (ds, ms) at clock time t.
\* `new Date(props.createdAt)` builds a new Date object with the argument's
\* time value (NaN stays NaN); `new Date()` one with the current time.
create(props, ds, ms, t) ==
  IF validate(props.alias) # "" THEN ResultFail(validate(props.alias), ds, ms)
  ELSE LET d == NewId(ds, DateIds)
           time == IF Truthy(props.createdAt) THEN ds[props.createdAt.ref] ELSE t
           m == NewId(ms, MetaIds)
           ms1 == IF Truthy(props.metadata) THEN ms ELSE Extend(ms, m, {})
       IN ResultSuccess(Identity(newProps(props, DateRef(d), ObjRef(m))),
                        Extend(ds, d, time), ms1)

\* Identity.create of the earlier revision: `props.createdAt || new Date()`
\* keeps the caller's Date object itself.
createRev1(props, ds, ms, t) ==
  IF validate(props.alias) # "" THEN ResultFail(validate(props.alias), ds, ms)
  ELSE LET d == NewId(ds, DateIds)
           supplied == Truthy(props.createdAt)
           m == NewId(ms, MetaIds)
           ms1 == IF Truthy(props.metadata) THEN ms ELSE Extend(ms, m, {})
       IN ResultSuccess(
            IdentityRev1(newPropsRev1(props,
                                      IF supplied THEN props.createdAt ELSE DateRef(d),
                                      ObjRef(m))),
            IF supplied THEN ds ELSE Extend(ds, d, t), ms1)

----------------------------------------------------------------------------
(* Identity: accessors and serialization *)

\* The getters.  `fresh` is the object a `|| {}` fallback would build.
getter(inst, key, fresh) ==
  CASE key = "metadata" -> Or(inst.props.metadata, fresh)
    [] key = "version" -> Or(inst.props.version, Str(DefaultVersion))
    [] OTHER -> inst.props[key]

\* toJSON(): the structural snapshot.
toJSON(inst, fresh) ==
  [alias |-> inst.props.alias,
   did |-> inst.props.did,
   kid |-> inst.props.kid,
   publicKeyHex |-> inst.props.publicKeyHex,
   privateKeyHex |-> inst.props.privateKeyHex,
   provider |-> inst.props.provider,
   credential |-> inst.props.credential,
   metadata |-> Or(inst.props.metadata, fresh),
   createdAt |-> inst.props.createdAt,
   version |-> inst.props.version]

\* toDomain(): built from the getters, each with a fallback of its own.
\* freshDate is the Date a `|| new Date()` fallback would build.
toDomain(inst, fresh, freshDate) ==
  [alias |-> getter(inst, "alias", fresh),
   did |-> getter(inst, "did", fresh),
   kid |-> getter(inst, "kid", fresh),
   publicKeyHex |-> getter(inst, "publicKeyHex", fresh),
   privateKeyHex |-> getter(inst, "privateKeyHex", fresh),
   provider |-> getter(inst, "provider", fresh),
   credential |-> getter(inst, "credential", fresh),
   metadata |-> Or(getter(inst, "metadata", fresh), fresh),
   createdAt |-> Or(getter(inst, "createdAt", fresh), freshDate),
   version |-> Or(getter(inst, "version", fresh), Str(DefaultVersion))]

\* JSON.stringify of one value: a string is kept, undefined has no encoding,
\* a Date is encoded by Date.prototype.toJSON (its ISO-8601 text, or null for
\* an Invalid Date), an object by its own properties.
jsonValue(v, ds, ms) ==
  CASE v.t = "string" -> [j |-> "string", v |-> v.v]
    [] v.t = "Date" -> IF ds[v.ref] = InvalidTime THEN [j |-> "null"]
                       ELSE [j |-> "string", v |-> <<"ISO-8601", ds[v.ref]>>]
    [] v.t = "object" -> [j |-> "object", v |-> ms[v.ref]]
    [] v.t = "credential" -> [j |-> "object", v |-> v.id]
    [] OTHER -> [j |-> "undefined"]

\* JSON.stringify of an object with the keys `keys`, in order: a property whose
\* value is undefined is left out.
RECURSIVE stringify(_, _, _, _)
stringify(obj, keys, ds, ms) ==
  IF keys = <<>> THEN <<>>
  ELSE LET k == Head(keys)
           rest == stringify(obj, Tail(keys), ds, ms)
       IN IF obj[k].t = "undefined" THEN rest
          ELSE <<[key |-> k, value |-> jsonValue(obj[k], ds, ms)]>> \o rest

\* toString(): JSON.stringify(this.props)
toString(inst, ds, ms) == stringify(inst.props, PropKeys, ds, ms)

----------------------------------------------------------------------------
(* The caller: inputs, references *)

PubHex == "0xabc"
PrivHex == "0xdef"
Credential == [t |-> "credential", id |-> "vc-1"]
MetaKeys == {"k"}

Pad(n) == [i \in 1..n |-> "a"]
SuffixChars == {"-", "!", " "}
Suffixes == UNION {[1..n -> SuffixChars] : n \in 0..MaxSuffix}
PadLengths == {0, MinAliasLength - 1, MaxAliasLength - 1, MaxAliasLength}

\* The aliases tried: absent, empty, too short, too long, on both length
\* boundaries, with and without a disallowed character.
AliasCases == {Undefined} \cup {Str(Pad(n) \o s) : n \in PadLengths, s \in Suffixes}
\* The alias used when the other attributes vary.
PlainAlias == Str(<<"Z", "9", "_">>)

PrivateKeyCases == {Undefined, Str(PrivHex), Str(PubHex)}
VersionCases == {Undefined, Str(""), Str("2.0.0")}
\* Absent, or the keys of a metadata object the caller builds
Absent == <<>>
MetadataCases == {Absent} \cup {<<ks>> : ks \in SUBSET MetaKeys}
\* Absent, or the time value of a Date object the caller builds
CreatedAtCases == {Absent} \cup {<<t>> : t \in TimeValues}

\* The inputs of create that are tried.
PlainCase ==
  [alias |-> PlainAlias, privateKeyHex |-> Undefined, version |-> Undefined,
   metadata |-> Absent, createdAt |-> Absent]
FullCase ==
  [alias |-> PlainAlias, privateKeyHex |-> Str(PrivHex), version |-> Str("2.0.0"),
   metadata |-> <<MetaKeys>>, createdAt |-> <<0>>]
\* The aliases, every other attribute at its plainest.
AliasInputs == {[PlainCase EXCEPT !.alias = a] : a \in AliasCases}
\* The other attributes, each varied on its own over its cases, all of them
\* supplied together, and one input that create refuses.
AttributeInputs ==
  {[PlainCase EXCEPT !.privateKeyHex = p] : p \in PrivateKeyCases}
  \cup {[PlainCase EXCEPT !.version = v] : v \in VersionCases}
  \cup {[PlainCase EXCEPT !.metadata = m] : m \in MetadataCases}
  \cup {[PlainCase EXCEPT !.createdAt = d] : d \in CreatedAtCases}
  \cup {FullCase, [PlainCase EXCEPT !.alias = Undefined]}

RefsOf(rec, tag) == {rec[k].ref : k \in {x \in DOMAIN rec : rec[x].t = tag}}
InstanceDates(insts) == UNION {RefsOf(insts[i].props, "Date") : i \in DOMAIN insts}
InstanceMetas(insts) == UNION {RefsOf(insts[i].props, "object") : i \in DOMAIN insts}
NoRefs == [dates |-> {}, metas |-> {}]
HeldIn(rec) == [dates |-> RefsOf(rec, "Date"), metas |-> RefsOf(rec, "object")]

\* The state after a call: objects nothing refers to any more are gone.
Settle(insts, ds, ms, c, h) ==
  /\ instances' = insts
  /\ call' = c
  /\ held' = h
  /\ dates' = Restrict(ds, InstanceDates(insts) \cup h.dates)
  /\ metas' = Restrict(ms, InstanceMetas(insts) \cup h.metas)

Call(op, self, arg, ret) == [op |-> op, self |-> self, arg |-> arg, ret |-> ret]

\* The values of a record of attributes, with every reference followed.
DeepValue(v, ds, ms) ==
  CASE v.t = "Date" -> [t |-> "Date", time |-> ds[v.ref]]
    [] v.t = "object" -> [t |-> "object", keys |-> ms[v.ref]]
    [] OTHER -> v
Deep(rec, ds, ms) == [k \in DOMAIN rec |-> DeepValue(rec[k], ds, ms)]

----------------------------------------------------------------------------
(* Actions *)

Init ==
  /\ instances = <<>>
  /\ dates = <<>>
  /\ metas = <<>>
  /\ now = 0
  /\ call = Call("none", 0, Undefined, Undefined)
  /\ held = NoRefs
  /\ deepFreeze \in BOOLEAN

\* Time passes.
Tick ==
  /\ now < MaxNow
  /\ now' = now + 1
  /\ UNCHANGED <<instances, dates, metas, call, held, deepFreeze>>

\* The caller builds the argument of create: a Date and a metadata object of
\* its own where the case supplies them.
BuildInput(c, ds, ms) ==
  LET d == NewId(ds, DateIds)
      m == NewId(ms, MetaIds)
  IN [props |-> [alias |-> c.alias,
                 did |-> Str("did:key:z6Mk"),
                 kid |-> Str("key-1"),
                 publicKeyHex |-> Str(PubHex),
                 privateKeyHex |-> c.privateKeyHex,
                 provider |-> Str("did:key"),
                 credential |-> Credential,
                 metadata |-> IF c.metadata = Absent THEN Undefined ELSE ObjRef(m),
                 createdAt |-> IF c.createdAt = Absent THEN Undefined ELSE DateRef(d),
                 version |-> c.version],
      dates |-> IF c.createdAt = Absent THEN ds ELSE Extend(ds, d, c.createdAt[1]),
      metas |-> IF c.metadata = Absent THEN ms ELSE Extend(ms, m, c.metadata[1])]

\* The instances still in scope once a create call has returned: the caller
\* keeps the result of its latest successful create, and the instance it had
\* before falls out of scope.  The class has no static state, so instances do
\* not act on each other except through objects they share, which the
\* references the caller holds keep in the heap.
Survivors(ok) == IF ok THEN <<>> ELSE instances

\* What a create call leaves behind.
Created(op, props, r) ==
  Settle(IF r.ok THEN Append(Survivors(TRUE), r.value) ELSE instances,
         r.dates, r.metas,
         Call(op, 0, props, [ok |-> r.ok, error |-> r.error, value |-> r.value]),
         HeldIn(props))

\* Identity.create(props), later revision
CreateCall(cases) ==
  \E c \in cases :
    LET kept == Survivors(validate(c.alias) = "")
        in == BuildInput(c, Restrict(dates, InstanceDates(kept)),
                            Restrict(metas, InstanceMetas(kept)))
    IN /\ Created("create", in.props, create(in.props, in.dates, in.metas, now))
       /\ UNCHANGED <<now, deepFreeze>>

\* Identity.create(props), earlier revision
CreateRev1Call(cases) ==
  \E c \in cases :
    LET kept == Survivors(validate(c.alias) = "")
        in == BuildInput(c, Restrict(dates, InstanceDates(kept)),
                            Restrict(metas, InstanceMetas(kept)))
    IN /\ Created("createRev1", in.props, createRev1(in.props, in.dates, in.metas, now))
       /\ UNCHANGED <<now, deepFreeze>>

\* Identity.create(snapshot), later revision, with the snapshot toJSON just returned
CreateFromSnapshot ==
  /\ call.op = "toJSON"
  /\ Created("createFromSnapshot", call.ret, create(call.ret, dates, metas, now))
  /\ UNCHANGED <<now, deepFreeze>>

\* The object a `|| {}` fallback builds exists once the fallback is taken.
WithFresh(heap, fresh, rec, v) ==
  IF fresh \in {rec[k] : k \in DOMAIN rec} THEN Extend(heap, fresh.ref, v) ELSE heap

\* A getter: alias, did, kid, publicKeyHex, privateKeyHex, provider,
\* credential, metadata, createdAt, and (later revision) version.
Get(i, key) ==
  /\ key = "version" => instances[i].rev = 2
  /\ LET fresh == ObjRef(NewId(metas, MetaIds))
         ret == getter(instances[i], key, fresh)
         got == [value |-> ret]
     IN Settle(instances, dates, WithFresh(metas, fresh, got, {}),
               Call(key, i, Undefined, ret), HeldIn(got))
  /\ UNCHANGED <<now, deepFreeze>>

\* get whoami (later revision)
Whoami(i) ==
  /\ instances[i].rev = 2
  /\ Settle(instances, dates, metas,
            Call("whoami", i, Undefined, Str(instances[i].unitDNA.name)), NoRefs)
  /\ UNCHANGED <<now, deepFreeze>>

\* get dna (later revision)
Dna(i) ==
  /\ instances[i].rev = 2
  /\ Settle(instances, dates, metas,
            Call("dna", i, Undefined, instances[i].unitDNA), NoRefs)
  /\ UNCHANGED <<now, deepFreeze>>

\* toString()
ToString(i) ==
  /\ Settle(instances, dates, metas,
            Call("toString", i, Undefined, toString(instances[i], dates, metas)), NoRefs)
  /\ UNCHANGED <<now, deepFreeze>>

\* toJSON()
ToJSON(i) ==
  /\ LET fresh == ObjRef(NewId(metas, MetaIds))
         ret == toJSON(instances[i], fresh)
     IN Settle(instances, dates, WithFresh(metas, fresh, ret, {}),
               Call("toJSON", i, Undefined, ret), HeldIn(ret))
  /\ UNCHANGED <<now, deepFreeze>>

\* toDomain that writes the defaulted metadata back into the held record
ToDomain_writesBack(i) ==
  /\ instances[i].rev = 2
  /\ LET fresh == ObjRef(NewId(metas, MetaIds))
         freshDate == DateRef(NewId(dates, DateIds))
         ret == toDomain(instances[i], fresh, freshDate)
     IN Settle([instances EXCEPT ![i].props.metadata = fresh],
               WithFresh(dates, freshDate, ret, now),
               Extend(metas, fresh.ref, {}),
               Call("toDomain", i, Undefined, ret), HeldIn(ret))
  /\ UNCHANGED <<now, deepFreeze>>

\* toDomain() (later revision)
ToDomain(i) ==
  /\ instances[i].rev = 2
  /\ LET fresh == ObjRef(NewId(metas, MetaIds))
         freshDate == DateRef(NewId(dates, DateIds))
         ret == toDomain(instances[i], fresh, freshDate)
     IN Settle(instances, WithFresh(dates, freshDate, ret, now),
               WithFresh(metas, fresh, ret, {}),
               Call("toDomain", i, Undefined, ret), HeldIn(ret))
  /\ UNCHANGED <<now, deepFreeze>>

\* The caller calls setTime(t) on a Date object it holds: one it passed to
\* create, or one the createdAt getter, toJSON or toDomain returned.  Freezing
\* an object does not protect a Date's time value.
SetTime(d, t) ==
  /\ d \in held.dates
  /\ dates[d] # t
  /\ dates' = [dates EXCEPT ![d] = t]
  /\ call' = Call("setTime", 0, <<d, t>>, Undefined)
  /\ UNCHANGED <<instances, metas, now, held, deepFreeze>>

\* The caller adds or deletes a key of a metadata object it holds: one it
\* passed to create, or one the metadata getter, toJSON or toDomain returned.
\* Only a base class that freezes nested objects prevents it.
SetMetadata(m, ks) ==
  /\ ~deepFreeze
  /\ m \in held.metas
  /\ metas[m] # ks
  /\ metas' = [metas EXCEPT ![m] = ks]
  /\ call' = Call("setMetadata", 0, <<m, ks>>, Undefined)
  /\ UNCHANGED <<instances, dates, now, held, deepFreeze>>

GetterKeys == {PropKeys[n] : n \in DOMAIN PropKeys}

\* The caller varies the attributes other than the alias.
Next ==
  \/ Tick
  \/ CreateCall(AttributeInputs)
  \/ CreateRev1Call(AttributeInputs)
  \/ CreateFromSnapshot
  \/ \E i \in DOMAIN instances, key \in GetterKeys : Get(i, key)
  \/ \E i \in DOMAIN instances : Whoami(i)
  \/ \E i \in DOMAIN instances : Dna(i)
  \/ \E i \in DOMAIN instances : ToString(i)
  \/ \E i \in DOMAIN instances : ToJSON(i)
  \/ \E i \in DOMAIN instances : ToDomain(i)
  \/ \E d \in DateIds, t \in TimeValues : SetTime(d, t)
  \/ \E m \in MetaIds, ks \in SUBSET MetaKeys : SetMetadata(m, ks)

\* The caller varies the alias.
NextAlias ==
  \/ CreateCall(AliasInputs)
  \/ CreateRev1Call(AliasInputs)
  \/ CreateFromSnapshot
  \/ \E i \in DOMAIN instances : Get(i, "alias")
  \/ \E i \in DOMAIN instances : ToJSON(i)

Spec == Init /\ [][Next]_vars
SpecAlias == Init /\ [][NextAlias]_vars

----------------------------------------------------------------------------
(* Properties *)

CreateOps == {"create", "createRev1", "createFromSnapshot"}
ReadOps == GetterKeys \cup {"whoami", "dna", "toString", "toJSON", "toDomain"}

\* The call just made was a create, and the instance it built.
JustCreated == call.op \in CreateOps /\ call.ret.ok
NewInstance == instances[Len(instances)]

\* The alias the specification allows: a string of 2 to 32 characters, all
\* letters, digits, underscores or dashes.
IsString(v) == v.t = "string"
AllAllowed(a) == \A n \in 1..Len(a.v) : a.v[n] \in Lower \cup Upper \cup Digit \cup {"_", "-"}
AliasAllowed(a) ==
  /\ IsString(a)
  /\ Len(a.v) >= 2
  /\ Len(a.v) <= 32
  /\ AllAllowed(a)

\* C1: create returns success exactly when the alias is a string of 2 to 32
\* characters from [A-Za-z0-9_-]; a failed create yields no instance; every
\* instance that exists has such an alias.
C1_CreateSucceedsIffAliasAllowed ==
  /\ call.op \in CreateOps =>
       /\ call.ret.ok <=> AliasAllowed(call.arg.alias)
       /\ ~call.ret.ok => call.ret.value = Undefined
  /\ \A i \in DOMAIN instances : AliasAllowed(instances[i].props.alias)

\* A create was refused for a 33-character alias of allowed characters only.
C1_Witness ==
  /\ call.op = "create"
  /\ ~call.ret.ok
  /\ IsString(call.arg.alias)
  /\ Len(call.arg.alias.v) = 33
  /\ AllAllowed(call.arg.alias)
  /\ instances # <<>>

\* C2: create checks empty, then character set, then length, and returns the
\* first failure: an empty or absent alias gives the 'empty' message, which is
\* neither of the other two; an alias with a disallowed character gives the
\* 'invalid characters' message whatever its length; the 'length' message is
\* given only to aliases whose characters are all allowed.
C2_ValidationOrder ==
  /\ EmptyMsg # CharsMsg
  /\ EmptyMsg # LengthMsg
  /\ call.op \in CreateOps =>
       LET a == call.arg.alias
           r == call.ret
       IN /\ r.ok \in BOOLEAN
          /\ r.ok <=> r.error = ""
          /\ ~r.ok => r.error \in {EmptyMsg, CharsMsg, LengthMsg}
          /\ (~IsString(a) \/ Len(a.v) = 0) => (~r.ok /\ r.error = EmptyMsg)
          /\ (IsString(a) /\ Len(a.v) > 0 /\ ~AllAllowed(a)) => (~r.ok /\ r.error = CharsMsg)
          /\ r.error = LengthMsg =>
               (IsString(a) /\ AllAllowed(a) /\ (Len(a.v) < 2 \/ Len(a.v) > 32))

\* A create was refused with the 'invalid characters' message for an alias that
\* is also too long.
C2_Witness ==
  /\ call.op = "create"
  /\ IsString(call.arg.alias)
  /\ Len(call.arg.alias.v) > 32
  /\ ~AllAllowed(call.arg.alias)
  /\ call.ret.error = CharsMsg

Supplied(v) == v.t # "undefined"
FreshObj == ObjRef(NewId(metas, MetaIds))
FreshDate == DateRef(NewId(dates, DateIds))
IsValidDate(v) == v.t = "Date" /\ dates[v.ref] # InvalidTime
IsObject(v) == v.t = "object"
IsVersion(v) == v.t = "string" /\ Len(v.v) > 0

\* C3: after a successful create every accessor returns the supplied value, or
\* the default where an optional attribute was not supplied ({} for metadata,
\* "1.0.0" for version, the time of construction for createdAt); a supplied
\* createdAt, metadata or version is never replaced by the default.
C3_AccessorsReturnInput ==
  JustCreated =>
    LET input == call.arg
        get(k) == DeepValue(getter(NewInstance, k, FreshObj), dates, metas)
    IN /\ \A k \in {"alias", "did", "kid", "publicKeyHex", "provider", "credential"} :
            get(k) = input[k]
       /\ get("privateKeyHex") = input.privateKeyHex
       /\ get("metadata") = IF Supplied(input.metadata)
                            THEN DeepValue(input.metadata, dates, metas)
                            ELSE [t |-> "object", keys |-> {}]
       /\ IF Supplied(input.createdAt)
          THEN get("createdAt") = DeepValue(input.createdAt, dates, metas)
          ELSE get("createdAt").t = "Date" /\ get("createdAt").time \in 0..now
       /\ NewInstance.rev = 2 =>
            get("version") = IF Supplied(input.version) THEN input.version
                             ELSE Str(DefaultVersion)

\* C4: create stores privateKeyHex as given, independent of publicKeyHex: the
\* accessor and the snapshot return the supplied value, or nothing when none
\* was supplied.
C4_PrivateKeyAsGiven ==
  JustCreated =>
    /\ getter(NewInstance, "privateKeyHex", FreshObj) = call.arg.privateKeyHex
    /\ toJSON(NewInstance, FreshObj).privateKeyHex = call.arg.privateKeyHex

\* C5: every instance has a metadata mapping, a valid createdAt timestamp and a
\* version string, through the accessors, toJSON and toDomain; a create whose
\* createdAt cannot be a timestamp returns a failure.
C5_ConcreteFields ==
  /\ (/\ call.op \in CreateOps
      /\ Supplied(call.arg.createdAt)
      /\ ~IsValidDate(call.arg.createdAt)) => ~call.ret.ok
  /\ JustCreated =>
       LET inst == NewInstance
           json == toJSON(inst, FreshObj)
           domain == toDomain(inst, FreshObj, FreshDate)
       IN /\ IsObject(getter(inst, "metadata", FreshObj))
          /\ IsValidDate(getter(inst, "createdAt", FreshObj))
          /\ IsVersion(getter(inst, "version", FreshObj))
          /\ IsObject(json.metadata) /\ IsValidDate(json.createdAt) /\ IsVersion(json.version)
          /\ inst.rev = 2 =>
               IsObject(domain.metadata) /\ IsValidDate(domain.createdAt) /\ IsVersion(domain.version)

\* C6: create applied to the snapshot of an instance succeeds and yields an
\* instance whose snapshot equals that snapshot field for field; a second
\* round trip changes nothing further.
C6_RoundTrip ==
  /\ call.op = "createFromSnapshot" =>
       /\ call.ret.ok
       /\ Deep(toJSON(NewInstance, FreshObj), dates, metas) = Deep(call.arg, dates, metas)
  /\ \A i \in DOMAIN instances :
       LET snap == toJSON(instances[i], FreshObj)
           r1 == create(snap, dates, metas, now)
           snap1 == toJSON(r1.value, FreshObj)
           r2 == create(snap1, r1.dates, r1.metas, now)
           snap2 == toJSON(r2.value, FreshObj)
       IN /\ r1.ok
          /\ Deep(snap1, r1.dates, r1.metas) = Deep(snap, dates, metas)
          /\ r2.ok
          /\ Deep(snap2, r2.dates, r2.metas) = Deep(snap1, r1.dates, r1.metas)

\* An instance was rebuilt from the snapshot of one that had a private key, a
\* version of its own and a creation time other than the current time.
C6_Witness ==
  /\ call.op = "createFromSnapshot"
  /\ call.ret.ok
  /\ call.arg.privateKeyHex = Str(PrivHex)
  /\ call.arg.version = Str("2.0.0")
  /\ dates[call.arg.createdAt.ref] # now
  /\ metas[call.arg.metadata.ref] # {}

\* C7: no getter, whoami, dna, toString, toJSON or toDomain call changes the
\* held record, and a snapshot call repeated on an instance returns an equal
\* snapshot.
C7_ReadsLeaveRecord ==
  [][call'.op \in ReadOps =>
       /\ instances' = instances
       /\ \A i \in DOMAIN instances :
            Deep(instances[i].props, dates', metas') = Deep(instances[i].props, dates, metas)
       /\ (/\ call.op \in {"toJSON", "toDomain"}
           /\ call'.op = call.op
           /\ call'.self = call.self)
          => Deep(call'.ret, dates', metas') = Deep(call.ret, dates, metas)]_vars

\* toDomain was called on an instance whose metadata has a key.
C7_Witness ==
  /\ call.op = "toDomain"
  /\ metas[call.ret.metadata.ref] # {}
  /\ instances[call.self].props.metadata = call.ret.metadata

\* C8: once an instance exists, nothing the caller does changes what its
\* accessors and snapshots return, short of building a new instance: every
\* step other than a successful create leaves the values of every instance's
\* attributes as they were.
C8_Immutable ==
  [][(call'.op \notin CreateOps \/ ~call'.ret.ok) =>
       \A i \in DOMAIN instances :
         Deep(instances[i].props, dates', metas') = Deep(instances[i].props, dates, metas)]_vars

\* JSON.parse of one encoded attribute, with the timestamp read back from its
\* ISO-8601 text.
parseValue(key, j) ==
  CASE j.j = "null" -> [t |-> "null"]
    [] key = "createdAt" -> [t |-> "Date", time |-> j.v[2]]
    [] key = "metadata" -> [t |-> "object", keys |-> j.v]
    [] key = "credential" -> [t |-> "credential", id |-> j.v]
    [] OTHER -> Str(j.v)

\* C9: toString encodes exactly the attributes of the snapshot, with the same
\* values (only an absent privateKeyHex is left out), and instances with equal
\* snapshots have equal texts.
C9_ToStringLossless ==
  /\ JustCreated =>
       LET text == toString(NewInstance, dates, metas)
           snap == toJSON(NewInstance, FreshObj)
           textKeys == {text[n].key : n \in DOMAIN text}
       IN /\ textKeys \subseteq DOMAIN snap
          /\ (DOMAIN snap) \ textKeys \subseteq {"privateKeyHex"}
          /\ \A k \in (DOMAIN snap) \ textKeys : snap[k] = Undefined
          /\ \A n \in DOMAIN text :
               parseValue(text[n].key, text[n].value)
                 = DeepValue(snap[text[n].key], dates, metas)
  /\ \A i, j \in DOMAIN instances :
       Deep(toJSON(instances[i], FreshObj), dates, metas)
         = Deep(toJSON(instances[j], FreshObj), dates, metas)
       => toString(instances[i], dates, metas) = toString(instances[j], dates, metas)

\* C10: for every instance of the later revision toDomain and toJSON return the
\* same value for every attribute, no fallback default of toDomain or of the
\* getters is taken, and the version of dna is the version accessor's.
C10_SnapshotsAgree ==
  /\ \A i \in DOMAIN instances :
       instances[i].rev = 2 =>
         LET inst == instances[i]
             domain == toDomain(inst, FreshObj, FreshDate)
         IN /\ domain = toJSON(inst, FreshObj)
            /\ FreshObj \notin {domain[k] : k \in DOMAIN domain}
            /\ FreshDate \notin {domain[k] : k \in DOMAIN domain}
            /\ Truthy(inst.props.metadata)
            /\ Truthy(inst.props.createdAt)
            /\ Truthy(inst.props.version)
            /\ inst.unitDNA.version = getter(inst, "version", FreshObj)
  /\ call.op = "toDomain" => call.ret = toJSON(instances[call.self], FreshObj)

\* toDomain was called on an instance built without a version.
C10_Witness ==
  /\ call.op = "toDomain"
  /\ call.ret.version = Str(DefaultVersion)
  /\ call.ret.privateKeyHex = Undefined

====
